---- MODULE Spec2Model ----
(***************************************************************************)
(* vvecon-setup: scripts/setup.js, the interactive setup wizard.           *)
(*                                                                         *)
(* main() is one linear async function.  The model follows its text: `pos` *)
(* is the step block of main() that control is in, `pc` the point inside   *)
(* that block, and every await on an external process or on a prompt is a  *)
(* separate action, so that a child process in flight and a pending prompt *)
(* are states of the model.  External tools (composer, php artisan, npm,   *)
(* npx) are black boxes: only their outcome (exit zero, exit non-zero,     *)
(* spawn failure) is modelled; what they write to disk is outside this     *)
(* repository and is not modelled.  `log` records, in order, everything    *)
(* the runner itself does that a user or an observer of the process could  *)
(* see: step headers, spawned commands and their outcomes, the runner's    *)
(* own filesystem calls, prompts, and progress-bar values.  `start` keeps  *)
(* what main() found when it began (the inherited APP_ENV, .env and        *)
(* .env.example), so that properties can relate the end of a run to its    *)
(* beginning; no action reads it.                                          *)
(***************************************************************************)
EXTENDS Integers, Sequences, FiniteSets, TLC

VARIABLES
    pc,            \* point in main(): see the actions
    pos,           \* the step block of main() control is in (1..11)
    step,          \* the JS variable `step` (setup.js:156)
    cmds,          \* runCommand calls still to be made in the current block
    running,       \* child processes spawned by execa that have not exited
    exitCode,      \* process exit status, meaningful once Terminated
    procEnv,       \* process.env.APP_ENV
    envFile,       \* <cwd>/.env
    envExample,    \* <cwd>/.env.example
    composerLock,  \* TRUE iff <cwd>/composer.lock exists
    storage,       \* the entry at <cwd>/public/storage
    log,           \* observable events, in order
    start          \* APP_ENV, .env and .env.example as main() found them

vars == <<pc, pos, step, cmds, running, exitCode, procEnv, envFile,
          envExample, composerLock, storage, log, start>>

fsVars == <<envFile, envExample, composerLock, storage>>

----------------------------------------------------------------------------
(* Bounds of the model *)

\* longest .env / .env.example file, in lines
MaxLines == 1
\* deepest directory nesting under public/storage
MaxDepth == 2

----------------------------------------------------------------------------
(* Program constants *)

\* const totalSteps = 11
totalSteps == 11

\* mutant: the failure paths call process.exit(0)
ExitFailureZero == 1 - 1

\* the argument of both process.exit calls
ExitFailure == 1

\* mutant: the rejection of main() is swallowed and the process ends with 0
RejectionExitZero == 1 - 1

\* main() is called without a catch: a throw inside it is an unhandled
\* rejection, which ends a Node 16+ process with status 1
RejectionExit == 1

\* the last step block of main(), "Step 11: Complete"
LastBlock == 11

\* the commands handed to runCommand, in the words of the source
ComposerNoScripts == "composer install --no-scripts --no-interaction --no-ansi"
KeyGenerate       == "php artisan key:generate"
ComposerInstall   == "composer install --no-interaction --no-ansi"
StorageLink       == "php artisan storage:link"
Migrate           == "php artisan migrate"
MigrateFresh      == "php artisan migrate:fresh"
DbSeed            == "php artisan db:seed"
MigrateFreshSeed  == "php artisan migrate:fresh --seed"
IconCache         == "php artisan icon:cache"
NpmBuild          == "npm run build"

\* const prodCommands = [...]
prodCommands ==
    << "php artisan config:cache", "php artisan route:cache",
       "php artisan view:cache", "php artisan optimize",
       "php artisan filament:cache-components" >>

\* the values of the choices of the three list prompts
MigrationChoices == {"none", "migrate", "migrate:fresh", "seed", "seed:fresh"}
YesNoChoices     == {"false", "true"}

\* how an execa call can end: resolve, or reject (non-zero exit, spawn error)
Outcomes == {"ok", "nonzero", "spawnfail"}

----------------------------------------------------------------------------
(* Files *)

\* A line of an env file: `lead` is what precedes the key on the line
\* ("" or "#"), then key=val.
EnvLines ==
    { [lead |-> "",  key |-> "APP_KEY", val |-> ""],
      [lead |-> "",  key |-> "APP_KEY", val |-> "base64:k"],
      [lead |-> "#", key |-> "APP_KEY", val |-> "base64:k"],
      [lead |-> "",  key |-> "APP_ENV", val |-> "production"],
      [lead |-> "",  key |-> "APP_ENV", val |-> "local"] }

RECURSIVE SeqsUpTo(_, _)
SeqsUpTo(S, n) ==
    IF n = 0 THEN { <<>> }
    ELSE LET shorter == SeqsUpTo(S, n - 1)
         IN  shorter \cup { Append(s, x) : s \in shorter, x \in S }

NoFile == [exists |-> FALSE, lines |-> <<>>]
File(ls) == [exists |-> TRUE, lines |-> ls]

EnvFiles == { File(ls) : ls \in SeqsUpTo(EnvLines, MaxLines) }

\* the templates a project ships: Laravel's, with the key left empty
Templates ==
    { File(<< [lead |-> "", key |-> "APP_ENV", val |-> "local"] >>),
      File(<< [lead |-> "", key |-> "APP_ENV", val |-> "production"] >>) }

\* fs.existsSync on a plain file
existsSync(f) == f.exists

\* /APP_KEY=.+/.test(envContent): unanchored, so what precedes the key on
\* the line does not matter; `.` needs one character after the `=`.
AppKeyPattern(ls) ==
    \E i \in 1..Len(ls) : ls[i].key = "APP_KEY" /\ ls[i].val # ""

\* process.env.APP_ENV
Unset == [set |-> FALSE, val |-> ""]
SetTo(v) == [set |-> TRUE, val |-> v]

\* dotenv's parse: comment lines are skipped and a later assignment of a key
\* replaces an earlier one.
RECURSIVE DotenvParse(_, _)
DotenvParse(ls, key) ==
    IF ls = <<>> THEN Unset
    ELSE LET last == ls[Len(ls)]
         IN  IF last.lead = "" /\ last.key = key
             THEN SetTo(last.val)
             ELSE DotenvParse(SubSeq(ls, 1, Len(ls) - 1), key)

\* dotenv.config({ path }) without `override`: a variable the process
\* already has is left as it is.
DotenvConfig(env, ls) ==
    IF env.set THEN env ELSE DotenvParse(ls, "APP_ENV")

\* process.env.APP_ENV || 'local'
EffectiveEnv(env) == IF env.set /\ env.val # "" THEN env.val ELSE "local"

isProduction(env) == env = "production"

----------------------------------------------------------------------------
(* The entry at public/storage *)

\* kind: "absent", "file", "link" (a symlink whose target exists),
\* "dangling" (a symlink whose target does not), "dir" (with its entries,
\* in readdir order).
Absent == [kind |-> "absent", kids |-> <<>>]
Leaf(k) == [kind |-> k, kids |-> <<>>]
Dir(ks) == [kind |-> "dir", kids |-> ks]

RECURSIVE Entries(_)
Entries(d) ==
    LET leaves == { Leaf("file"), Leaf("link"), Leaf("dangling") }
    IN  IF d = 0 THEN leaves
        ELSE leaves \cup { Dir(<<>>) } \cup { Dir(<<k>>) : k \in Entries(d - 1) }

StorageEntries == { Absent } \cup Entries(MaxDepth)

\* fs.existsSync follows symlinks: a dangling link "does not exist"
entryExists(e) == e.kind \notin {"absent", "dangling"}

\* fs.lstatSync(p).isDirectory() does not follow symlinks
isDirectory(e) == e.kind = "dir"

Done(e)   == [entry |-> e, err |-> FALSE]
Thrown(e) == [entry |-> e, err |-> TRUE]

\* what is left of a list of entries: removed ones are gone
Remaining(e) == IF e.kind = "absent" THEN <<>> ELSE <<e>>

RECURSIVE deleteDirectory(_), DeleteEach(_)
\* the for-loop of deleteDirectory over readdirSync(dir); a throw stops it
DeleteEach(ks) ==
    IF ks = <<>> THEN [left |-> <<>>, err |-> FALSE]
    ELSE LET r == deleteDirectory(Head(ks))
         IN  IF r.err
             THEN [left |-> Remaining(r.entry) \o Tail(ks), err |-> TRUE]
             ELSE LET rest == DeleteEach(Tail(ks))
                  IN  [left |-> Remaining(r.entry) \o rest.left,
                       err  |-> rest.err]

\* function deleteDirectory(dir): rmdirSync throws ENOTEMPTY when an entry
\* of dir was left in place.
deleteDirectory(e) ==
    IF ~entryExists(e) THEN Done(e)
    ELSE IF ~isDirectory(e) THEN Done(Absent)
    ELSE LET r == DeleteEach(e.kids)
         IN  IF r.err \/ r.left # <<>>
             THEN Thrown(Dir(r.left))
             ELSE Done(Absent)

\* the for-loop of deleteDirectoryContents: directories go to
\* deleteDirectory, everything else is unlinked.
RECURSIVE DeleteContentsEach(_)
DeleteContentsEach(ks) ==
    IF ks = <<>> THEN [left |-> <<>>, err |-> FALSE]
    ELSE LET r == IF isDirectory(Head(ks)) THEN deleteDirectory(Head(ks))
                  ELSE Done(Absent)
         IN  IF r.err
             THEN [left |-> Remaining(r.entry) \o Tail(ks), err |-> TRUE]
             ELSE LET rest == DeleteContentsEach(Tail(ks))
                  IN  [left |-> Remaining(r.entry) \o rest.left,
                       err  |-> rest.err]

\* function deleteDirectoryContents(dir)
deleteDirectoryContents(e) ==
    IF ~entryExists(e) \/ ~isDirectory(e) THEN Done(e)
    ELSE LET r == DeleteContentsEach(e.kids)
         IN  [entry |-> Dir(r.left), err |-> r.err]

\* Step 5's two calls in a row: the second runs only if the first returned
CleanStorage(e) ==
    LET r == deleteDirectoryContents(e)
    IN  IF r.err THEN r ELSE deleteDirectory(r.entry)

----------------------------------------------------------------------------
(* Events *)

Ev(kind, at, what, res, n) ==
    [kind |-> kind, pos |-> at, what |-> what, res |-> res, n |-> n]

Terminated == pc \in {"done", "exited", "crashed"}

\* mutant: execa is called without `await`
NotAwaited == TRUE

\* `await`: the continuation runs once the awaited child has exited
Awaited == running = <<>>

\* mutant: progressBar.update(step) after `step++`
ProgressValueOffByOne(s) == s

\* the value handed to progressBar.update after `step++`
ProgressValue(s) == s - 1

----------------------------------------------------------------------------
(* Initial state: main() is about to run in some working directory *)

Init ==
    /\ pc = "start"
    /\ pos = 0
    /\ step = 1
    /\ cmds = <<>>
    /\ running = <<>>
    /\ exitCode = 0
    /\ procEnv \in { Unset, SetTo(""), SetTo("production"), SetTo("local") }
    /\ envFile \in { NoFile } \cup EnvFiles
    /\ envExample \in { NoFile } \cup Templates
    /\ composerLock \in BOOLEAN
    /\ storage \in StorageEntries
    /\ log = <<>>
    /\ start = [procEnv |-> procEnv, envFile |-> envFile,
                envExample |-> envExample]

----------------------------------------------------------------------------
(* What each step block asks runCommand to run *)

\* mutant: the template is copied over an existing .env
NeedsCopyAlways(f) == TRUE

\* Step 3: copy the template exactly when .env is absent
NeedsCopy(f) == ~existsSync(f)

\* Step 3, else-branch: key:generate unless the pattern matches
KeyCommands(f) ==
    IF ~AppKeyPattern(f.lines) THEN << KeyGenerate >> ELSE <<>>

\* mutant: case 'seed' seeds before it migrates
MigrationCommandsSeedFirst(opt) ==
    CASE opt = "migrate"       -> << "php artisan migrate" >>
      [] opt = "migrate:fresh" -> << "php artisan migrate:fresh" >>
      [] opt = "seed"          -> << "php artisan db:seed", "php artisan migrate" >>
      [] opt = "seed:fresh"    -> << "php artisan migrate:fresh --seed" >>
      [] OTHER                 -> <<>>

\* mutant: the default case of the switch falls into 'migrate'
MigrationCommandsFallThrough(opt) ==
    CASE opt = "migrate:fresh" -> << "php artisan migrate:fresh" >>
      [] opt = "seed"          -> << "php artisan migrate", "php artisan db:seed" >>
      [] opt = "seed:fresh"    -> << "php artisan migrate:fresh --seed" >>
      [] OTHER                 -> << "php artisan migrate" >>

\* Step 7: switch (migrationOption)
MigrationCommands(opt) ==
    CASE opt = "migrate"       -> << Migrate >>
      [] opt = "migrate:fresh" -> << MigrateFresh >>
      [] opt = "seed"          -> << Migrate, DbSeed >>
      [] opt = "seed:fresh"    -> << MigrateFreshSeed >>
      [] OTHER                 -> <<>>

\* Step 9: if (buildAssets)
BuildCommands(v) == IF v = "true" THEN << NpmBuild >> ELSE <<>>

\* mutant: the optimizations run whatever the answer
ProdCommandsAlways(v) == prodCommands

\* Step 10: if (runProd) for (const [cmd, args] of prodCommands)
ProdCommands(v) == IF v = "true" THEN prodCommands ELSE <<>>

\* printStepHeader(step, totalSteps, title)
Header(title) == Ev("header", pos, title, "", step)

\* A step block that prints its header and then only calls runCommand
Block(at, title, todo) ==
    /\ pc = "begin"
    /\ pos = at
    /\ log' = Append(log, Header(title))
    /\ cmds' = todo
    /\ pc' = "run"
    /\ UNCHANGED <<pos, step, running, exitCode, procEnv, fsVars, start>>

\* A step block that prints its header and then blocks in inquirer.prompt
PromptBlock(at, title, name) ==
    /\ pc = "begin"
    /\ pos = at
    /\ log' = log \o << Header(title), Ev("prompt", pos, name, "", 0) >>
    /\ pc' = "prompt"
    /\ UNCHANGED <<pos, step, cmds, running, exitCode, procEnv, fsVars, start>>

\* mutant: the value the prompt returns is dropped and main() stays blocked
SelectedDropped(at, name, value, todo) ==
    /\ pc = "prompt"
    /\ pos = at
    /\ UNCHANGED vars

\* The prompt returns the value of the chosen item
Selected(at, name, value, todo) ==
    /\ pc = "prompt"
    /\ pos = at
    /\ log' = Append(log, Ev("answer", pos, name, value, 0))
    /\ cmds' = todo
    /\ pc' = "run"
    /\ UNCHANGED <<pos, step, running, exitCode, procEnv, fsVars, start>>

----------------------------------------------------------------------------
(* main() *)

\* console.clear(); await displayBanner(): the logo is drawn by npx
MainBanner ==
    /\ pc = "start"
    /\ running' = Append(running, "npx oh-my-logo")
    /\ log' = Append(log, Ev("banner", pos, "npx oh-my-logo", "", 0))
    /\ pc' = "banner"
    /\ UNCHANGED <<pos, step, cmds, exitCode, procEnv, fsVars, start>>

\* displayBanner's try/catch: whatever the outcome, the caller goes on.
\* After the final banner main() returns and the process ends with 0.
DisplayBannerExit(o) ==
    /\ pc = "banner"
    /\ running # <<>>
    /\ running' = Tail(running)
    /\ IF pos = LastBlock
       THEN pc' = "done" /\ exitCode' = 0
       ELSE pc' = "wizard" /\ UNCHANGED exitCode
    /\ UNCHANGED <<pos, step, cmds, procEnv, fsVars, log, start>>

\* let step = 1; const totalSteps = 11; progressBar.start(totalSteps, 0)
MainWizard ==
    /\ pc = "wizard"
    /\ step' = 1
    /\ log' = Append(log, Ev("progress", pos, "start", "", 0))
    /\ pos' = 1
    /\ pc' = "begin"
    /\ UNCHANGED <<cmds, running, exitCode, procEnv, fsVars, start>>

\* Step 1: the block tests for composer.lock and prints a message; it makes
\* no call that removes the file.
Step1 ==
    /\ pc = "begin"
    /\ pos = 1
    /\ log' = log \o
         << Header("Cleaning composer.lock"),
            Ev("say", pos,
               IF composerLock THEN "composer.lock deleted"
               ELSE "No composer.lock found", "", 0) >>
    /\ cmds' = <<>>
    /\ pc' = "run"
    /\ UNCHANGED <<pos, step, running, exitCode, procEnv, fsVars, start>>

Step2 ==
    Block(2, "Installing Composer dependencies (no-scripts)",
          << ComposerNoScripts >>)

\* Step 3: .env setup, up to the environment check
Step3 ==
    /\ pc = "begin"
    /\ pos = 3
    /\ IF NeedsCopy(envFile)
       THEN IF ~existsSync(envExample)
            THEN \* copyFileSync throws ENOENT
                 /\ log' = log \o << Header("Setting up .env"),
                                     Ev("fs", pos, "copyFile", "error", 0) >>
                 /\ pc' = "crashed"
                 /\ exitCode' = RejectionExit
                 /\ UNCHANGED <<cmds, envFile>>
            ELSE /\ envFile' = envExample
                 /\ log' = log \o << Header("Setting up .env"),
                                     Ev("fs", pos, "copyFile", "ok", 0) >>
                 /\ cmds' = << KeyGenerate >>
                 /\ pc' = "run"
                 /\ UNCHANGED exitCode
       ELSE /\ log' = Append(log, Header("Setting up .env"))
            /\ cmds' = KeyCommands(envFile)
            /\ pc' = "run"
            /\ UNCHANGED <<exitCode, envFile>>
    /\ UNCHANGED <<pos, step, running, procEnv, envExample, composerLock,
                   storage, start>>

\* checkEnvironment(), called once Step 3's commands are through
CheckEnvironment ==
    /\ pc = "run"
    /\ pos = 3
    /\ cmds = <<>>
    /\ Awaited
    /\ procEnv' = IF existsSync(envFile)
                  THEN DotenvConfig(procEnv, envFile.lines)
                  ELSE procEnv
    /\ IF isProduction(EffectiveEnv(procEnv'))
       THEN /\ log' = Append(log, Ev("abort", pos, "production", "", 0))
            /\ pc' = "exited"
            /\ exitCode' = ExitFailure
       ELSE /\ log' = Append(log, Ev("say", pos, "Environment check passed",
                                     EffectiveEnv(procEnv'), 0))
            /\ pc' = "checked"
            /\ UNCHANGED exitCode
    /\ UNCHANGED <<pos, step, cmds, running, fsVars, start>>

Step4 ==
    Block(4, "Re-running Composer install (with scripts)",
          << ComposerInstall >>)

\* Step 5: Clean public/storage
Step5 ==
    /\ pc = "begin"
    /\ pos = 5
    /\ IF entryExists(storage)
       THEN LET r == CleanStorage(storage)
            IN  /\ storage' = r.entry
                /\ IF r.err
                   THEN /\ log' = log \o
                              << Header("Cleaning public/storage"),
                                 Ev("fs", pos, "delete", "error", 0) >>
                        /\ pc' = "crashed"
                        /\ exitCode' = RejectionExit
                   ELSE /\ log' = log \o
                              << Header("Cleaning public/storage"),
                                 Ev("fs", pos, "delete", "ok", 0) >>
                        /\ pc' = "run"
                        /\ UNCHANGED exitCode
       ELSE /\ log' = log \o
                 << Header("Cleaning public/storage"),
                    Ev("say", pos, "public/storage not found", "", 0) >>
            /\ pc' = "run"
            /\ UNCHANGED <<exitCode, storage>>
    /\ cmds' = <<>>
    /\ UNCHANGED <<pos, step, running, procEnv, envFile, envExample,
                   composerLock, start>>

Step6 == Block(6, "Creating storage symlink", << StorageLink >>)

Step7 == PromptBlock(7, "Database migration", "migrationOption")

SelectMigration(opt) ==
    Selected(7, "migrationOption", opt, MigrationCommands(opt))

Step8 == Block(8, "Caching icons", << IconCache >>)

Step9 == PromptBlock(9, "Frontend asset build", "buildAssets")

SelectBuild(v) == Selected(9, "buildAssets", v, BuildCommands(v))

Step10 == PromptBlock(10, "Production optimizations", "runProd")

SelectProd(v) == Selected(10, "runProd", v, ProdCommands(v))

----------------------------------------------------------------------------
(* runCommand *)

\* ora(...).start(); execa(command, args, { stdio: 'inherit' })
RunCommandSpawn ==
    /\ pc = "run"
    /\ cmds # <<>>
    /\ Awaited
    /\ running' = Append(running, Head(cmds))
    /\ cmds' = Tail(cmds)
    /\ log' = Append(log, Ev("spawn", pos, Head(cmds), "", 0))
    /\ UNCHANGED <<pc, pos, step, exitCode, procEnv, fsVars, start>>

\* mutant: the try block goes on without spinner.succeed
RunCommandSucceedSilent ==
    /\ pc = "run"
    /\ running # <<>>
    /\ running' = Tail(running)
    /\ UNCHANGED <<pc, pos, step, cmds, exitCode, procEnv, fsVars, log, start>>

\* the promise resolves: spinner.succeed, beepSuccess
RunCommandSucceed ==
    /\ pc = "run"
    /\ running # <<>>
    /\ running' = Tail(running)
    /\ log' = Append(log, Ev("exit", pos, Head(running), "ok", 0))
    /\ UNCHANGED <<pc, pos, step, cmds, exitCode, procEnv, fsVars, start>>

\* mutant: the catch block reports the failure and returns
RunCommandFailGoesOn(o) ==
    /\ pc = "run"
    /\ running # <<>>
    /\ running' = Tail(running)
    /\ log' = Append(log, Ev("exit", pos, Head(running), o, 0))
    /\ UNCHANGED <<pc, pos, step, cmds, exitCode, procEnv, fsVars, start>>

\* mutant: the catch block runs the command again
RunCommandFailRetries(o) ==
    /\ pc = "run"
    /\ running # <<>>
    /\ running' = Tail(running)
    /\ cmds' = << Head(running) >> \o cmds
    /\ log' = Append(log, Ev("exit", pos, Head(running), o, 0))
    /\ UNCHANGED <<pc, pos, step, exitCode, procEnv, fsVars, start>>

\* the promise rejects: spinner.fail, beepFail, process.exit(1)
RunCommandFail(o) ==
    /\ pc = "run"
    /\ running # <<>>
    /\ running' = Tail(running)
    /\ log' = Append(log, Ev("exit", pos, Head(running), o, 0))
    /\ pc' = "exited"
    /\ exitCode' = ExitFailure
    /\ UNCHANGED <<pos, step, cmds, procEnv, fsVars, start>>

----------------------------------------------------------------------------
(* The end of a step block, and of main() *)

\* await randomMotivation(); step++; progressBar.update(step - 1)
StepEnd ==
    /\ \/ pc = "run" /\ pos # 3 /\ cmds = <<>> /\ Awaited
       \/ pc = "checked"
    /\ step' = step + 1
    /\ log' = Append(log, Ev("progress", pos, "update", "", ProgressValue(step')))
    /\ pos' = pos + 1
    /\ pc' = IF pos' = LastBlock THEN "complete" ELSE "begin"
    /\ UNCHANGED <<cmds, running, exitCode, procEnv, fsVars, start>>

\* Step 11: progressBar.stop(), the closing messages, the final banner
MainComplete ==
    /\ pc = "complete"
    /\ running' = Append(running, "npx oh-my-logo")
    /\ log' = log \o << Ev("progress", pos, "stop", "", 0),
                        Ev("banner", pos, "npx oh-my-logo", "", 0) >>
    /\ pc' = "banner"
    /\ UNCHANGED <<pos, step, cmds, exitCode, procEnv, fsVars, start>>

Next ==
    \/ MainBanner
    \/ \E o \in Outcomes : DisplayBannerExit(o)
    \/ MainWizard
    \/ Step1
    \/ Step2
    \/ Step3
    \/ CheckEnvironment
    \/ Step4
    \/ Step5
    \/ Step6
    \/ Step7
    \/ \E opt \in MigrationChoices : SelectMigration(opt)
    \/ Step8
    \/ Step9
    \/ \E v \in YesNoChoices : SelectBuild(v)
    \/ Step10
    \/ \E v \in YesNoChoices : SelectProd(v)
    \/ RunCommandSpawn
    \/ RunCommandSucceed
    \/ \E o \in Outcomes \ {"ok"} : RunCommandFail(o)
    \/ StepEnd
    \/ MainComplete

Spec == Init /\ [][Next]_vars

\* What happens outside the runner: a child process exits, the user answers
ChildExit ==
    \/ RunCommandSucceed
    \/ \E o \in Outcomes \ {"ok"} : RunCommandFail(o)
    \/ \E o \in Outcomes : DisplayBannerExit(o)

PromptAnswered ==
    \/ \E opt \in MigrationChoices : SelectMigration(opt)
    \/ \E v \in YesNoChoices : SelectBuild(v)
    \/ \E v \in YesNoChoices : SelectProd(v)

\* What the runner does by itself, between two awaits
RunnerStep ==
    \/ MainBanner \/ MainWizard \/ Step1 \/ Step2 \/ Step3
    \/ CheckEnvironment \/ Step4 \/ Step5 \/ Step6 \/ Step7 \/ Step8
    \/ Step9 \/ Step10 \/ RunCommandSpawn \/ StepEnd \/ MainComplete

\* The runner's own code always runs on (Node's event loop); that every
\* child eventually exits and every prompt is eventually answered is the
\* assumption under which termination is claimed.
FairSpec ==
    /\ Spec
    /\ WF_vars(RunnerStep)
    /\ WF_vars(ChildExit)
    /\ WF_vars(PromptAnswered)

----------------------------------------------------------------------------
(* Reading the log *)

Idx == 1..Len(log)

IsSpawn(e)    == e.kind = "spawn"
IsFailure(e)  == e.kind = "exit" /\ e.res # "ok"
IsFsCall(e)   == e.kind = "fs"
IsHeader(e)   == e.kind = "header"
IsProgress(e) == e.kind = "progress" /\ e.what \in {"start", "update"}
IsSkip(e)     == e.kind = "answer" /\ e.res \in {"none", "false"}

\* the command lines handed to runCommand so far, in order
Invoked ==
    LET sp == SelectSeq(log, IsSpawn)
    IN  [i \in 1..Len(sp) |-> sp[i].what]

Times(c) == Len(SelectSeq(log, LAMBDA e : IsSpawn(e) /\ e.what = c))

\* the values shown by the progress bar so far, in order
Reported ==
    LET pr == SelectSeq(log, IsProgress)
    IN  [i \in 1..Len(pr) |-> pr[i].n]

CountBefore(i, Test(_)) == Len(SelectSeq(SubSeq(log, 1, i - 1), Test))

IsOkExit(e) == e.kind = "exit" /\ e.res = "ok"

----------------------------------------------------------------------------
(* C1..C10 *)

\* C1 -- Fail-fast: when a command run through runCommand exits non-zero or
\* fails to spawn, that report is the last thing the runner does: no later
\* command, filesystem call, header or progress value follows it, no child
\* is left running, and the process has ended with a non-zero status; and
\* from then on nothing changes at all.
FailFast ==
    /\ [](\A i \in Idx : IsFailure(log[i]) =>
             /\ i = Len(log)
             /\ pc = "exited"
             /\ exitCode # 0
             /\ running = <<>>)
    /\ [][(\E i \in Idx : IsFailure(log[i])) => UNCHANGED vars]_vars

\* a sub-command of a choice step failed: db:seed after a successful migrate
FailFastWitness ==
    /\ pc = "exited"
    /\ log # <<>>
    /\ IsFailure(log[Len(log)])
    /\ log[Len(log)].what = DbSeed
    /\ log[Len(log)].res = "spawnfail"
    /\ Times(Migrate) = 1

\* C2 -- Strict ordering: the k-th step header printed is that of step k;
\* when it is printed, the previous step has reported its progress as the
\* very last thing, and every command spawned so far has exited zero; and
\* at most one child process exists at any time.
StrictOrdering ==
    /\ Len(running) <= 1
    /\ \A i \in Idx : IsHeader(log[i]) =>
          LET k == CountBefore(i, IsHeader) + 1
          IN  /\ log[i].pos = k
              /\ log[i].n = k
              /\ k <= 10
              /\ IsProgress(log[i - 1])
              /\ log[i - 1].n = k - 1
              /\ CountBefore(i, IsSpawn) = CountBefore(i, IsOkExit)
    /\ pos \in 1..10 /\ pc # "begin" =>
          Len(SelectSeq(log, IsHeader)) = pos

\* the fourth optimization command is running in step 10
StrictOrderingWitness ==
    /\ pos = 10
    /\ running = << "php artisan optimize" >>
    /\ Len(SelectSeq(log, IsHeader)) = 10

\* C3 (as claimed) -- a run that ends in the production abort has invoked
\* no command through runCommand and made no filesystem call before it.
ProductionAbortBeforeAnyStep ==
    (pc = "exited" /\ log # <<>> /\ log[Len(log)].kind = "abort") =>
        \A i \in Idx : ~IsSpawn(log[i]) /\ ~IsFsCall(log[i])

\* C4 (as claimed) -- after a run in which every step succeeded, the last
\* value the progress bar was given equals totalSteps.
FinalProgressIsTotal ==
    pc = "done" => LET shown == Reported IN shown[Len(shown)] = totalSteps

\* C5 (as claimed) -- once step 1 is over, composer.lock does not exist.
LockFileRemoved ==
    pos >= 2 => ~composerLock

\* The example scenario of C6: the directory holds only the template, every
\* prompt that was shown was answered skip/no, no command failed.
\* (The runner never writes composer.lock, and public/storage was absent
\* from the start iff it is absent now and step 5 deleted nothing.)
OnlyTemplate ==
    /\ ~start.envFile.exists
    /\ start.envExample.exists
    /\ ~composerLock
    /\ storage = Absent
    /\ \A i \in Idx : ~(IsFsCall(log[i]) /\ log[i].what = "delete")

AllSkipped == \A i \in Idx : log[i].kind = "answer" => IsSkip(log[i])

NoCommandFailed == \A i \in Idx : ~IsFailure(log[i])

ChoiceCommands ==
    { Migrate, MigrateFresh, DbSeed, MigrateFreshSeed, NpmBuild }
        \cup { prodCommands[i] : i \in 1..Len(prodCommands) }

ScenarioOutcome ==
    /\ envFile = start.envExample
    /\ Times(KeyGenerate) = 1
    /\ Times(StorageLink) = 1
    /\ exitCode = 0
    /\ \A c \in ChoiceCommands : Times(c) = 0

ScenarioIsProduction ==
    \/ start.procEnv = SetTo("production")
    \/ /\ ~start.procEnv.set
       /\ \E i \in 1..Len(start.envExample.lines) :
             start.envExample.lines[i] =
                 [lead |-> "", key |-> "APP_ENV", val |-> "production"]

AllStepsSucceeded ==
    \A i \in Idx :
        /\ ~IsFailure(log[i])
        /\ ~(IsFsCall(log[i]) /\ log[i].res = "error")
        /\ log[i].kind # "abort"

ExitStatus ==
    Terminated =>
        /\ exitCode = 0 <=> AllStepsSucceeded
        /\ AllStepsSucceeded => pc = "done"

\* a full run with seeding, the build and the optimizations, ending with 0
ExitStatusWitness ==
    /\ pc = "done"
    /\ exitCode = 0
    /\ Times(DbSeed) = 1
    /\ Times(NpmBuild) = 1
    /\ Times("php artisan filament:cache-components") = 1

\* C8 -- a skip/no answer to a choice step: no command is ever spawned in
\* that step, the very next thing the runner does is report progress equal
\* to that step's number, and until it has done so the run is alive with
\* nothing left to run in the step.
SkipIsSuccess ==
    \A i \in Idx : IsSkip(log[i]) =>
        /\ \A j \in Idx : IsSpawn(log[j]) => log[j].pos # log[i].pos
        /\ i < Len(log) =>
              /\ IsProgress(log[i + 1])
              /\ log[i + 1].n = log[i].pos
        /\ i = Len(log) =>
              /\ ~Terminated
              /\ cmds = <<>>
              /\ running = <<>>
              /\ ENABLED StepEnd

\* all three choice steps skipped and the run completed
SkipIsSuccessWitness ==
    /\ pc = "done"
    /\ Cardinality({ i \in Idx : IsSkip(log[i]) }) = 3
    /\ Len(Reported) = 11

\* C9 -- once step 3 has dealt with the file: if .env existed it was not
\* copied over and is as it was; if it did not, one copy was attempted, and
\* with a template present .env now has the template's content.
Step3Handled == pos > 3 \/ (pos = 3 /\ pc # "begin")

Copies == { i \in Idx : IsFsCall(log[i]) /\ log[i].what = "copyFile" }

EnvFileStep ==
    Step3Handled =>
        /\ start.envFile.exists => Copies = {} /\ envFile = start.envFile
        /\ ~start.envFile.exists =>
              /\ Cardinality(Copies) = 1
              /\ start.envExample.exists => envFile = start.envExample
              /\ ~start.envExample.exists => pc = "crashed"

\* an existing .env that differs from the template survived the whole run
EnvFileStepWitness ==
    /\ pc = "done"
    /\ start.envFile.exists
    /\ start.envExample.exists
    /\ start.envFile # start.envExample
    /\ envFile = start.envFile

\* C10 -- the values given to the progress bar are 0, 1, 2, ... with no gap
\* and no repeat; the value reported at the end of step k is k; whenever a
\* step is under way, the steps before it have all been reported.
ProgressGapFree ==
    LET shown == Reported
    IN  /\ \A i \in 1..Len(shown) : shown[i] = i - 1
        /\ \A i \in Idx :
              log[i].kind = "progress" /\ log[i].what = "update" =>
                  log[i].n = log[i].pos
        /\ pos \in 1..11 => Len(shown) = pos

\* a run that aborted in step 7 after reporting 0..6
ProgressGapFreeWitness ==
    /\ pc = "exited"
    /\ pos = 7
    /\ Reported = << 0, 1, 2, 3, 4, 5, 6 >>

----------------------------------------------------------------------------
(* C11..C18 *)

\* the environment check of step 3 is over and the run went on
PastEnvironmentCheck == pc = "checked" \/ pos > 3

\* .env, as dotenv reads it, sets APP_ENV=production
EnvFileSaysProduction ==
    /\ envFile.exists
    /\ DotenvParse(envFile.lines, "APP_ENV") = SetTo("production")

\* C11 (as claimed) -- whatever APP_ENV the process inherited, a run whose
\* .env sets APP_ENV=production never gets past the environment check:
\* steps 4..10 do not execute.
ProductionFileAlwaysAborts ==
    EnvFileSaysProduction => ~PastEnvironmentCheck


IsFsError(e) == IsFsCall(e) /\ e.res = "error"

\* C12 -- a filesystem call that throws is the last thing the runner does:
\* nothing follows it in the log, no child is running, and the process has
\* ended with a non-zero status; and step 3 does throw when neither .env
\* nor .env.example exists.
FilesystemErrorAborts ==
    /\ \A i \in Idx : IsFsError(log[i]) =>
          /\ i = Len(log)
          /\ pc = "crashed"
          /\ exitCode # 0
          /\ running = <<>>
    /\ (Step3Handled /\ ~start.envFile.exists /\ ~start.envExample.exists) =>
          /\ pc = "crashed"
          /\ pos = 3
          /\ IsFsError(log[Len(log)])
    /\ pc = "crashed" => IsFsError(log[Len(log)])

\* step 5 threw on a directory it could not empty, after steps 2 to 4 ran
FilesystemErrorAbortsWitness ==
    /\ pc = "crashed"
    /\ pos = 5
    /\ storage # Absent
    /\ Len(Invoked) >= 3


\* C13 -- Report-before-advance: the event that follows the start of a
\* command is the report of that command's outcome, in the same step; while
\* no report has been made the command is still the one running and the
\* process is alive; so a finished run has reported every command it ran.
ReportBeforeAdvance ==
    /\ \A i \in Idx : IsSpawn(log[i]) =>
          /\ i < Len(log) =>
                /\ log[i + 1].kind = "exit"
                /\ log[i + 1].what = log[i].what
                /\ log[i + 1].pos = log[i].pos
          /\ i = Len(log) =>
                /\ running = << log[i].what >>
                /\ ~Terminated
    /\ Terminated =>
          Len(SelectSeq(log, IsSpawn)) =
              Len(SelectSeq(log, LAMBDA e : e.kind = "exit"))

\* step 8 has begun after migrate and db:seed were each reported in step 7
ReportBeforeAdvanceWitness ==
    /\ pos = 8
    /\ pc = "run"
    /\ running = << IconCache >>
    /\ \E i \in Idx : IsOkExit(log[i]) /\ log[i].what = DbSeed


IsFsDone(e, op) == IsFsCall(e) /\ e.what = op /\ e.res = "ok"

\* C14 -- No retry, no rollback: no command line is handed to runCommand
\* twice in a run; what the runner did to the files stays done (a copied
\* .env keeps the template's content, a cleaned public/storage stays
\* absent), also after a failure; and once the process has ended the files
\* are never touched again.
NoRetryNoRollback ==
    /\ [](LET inv == Invoked
          IN  /\ \A i, j \in 1..Len(inv) : i # j => inv[i] # inv[j]
              /\ (\E i \in Idx : IsFsDone(log[i], "copyFile")) =>
                     envFile = start.envExample
              /\ (\E i \in Idx : IsFsDone(log[i], "delete")) =>
                     storage = Absent)
    /\ [][Terminated => UNCHANGED fsVars]_vars

\* storage:link failed in step 6, after .env was copied and public/storage
\* removed: both changes are still there
NoRetryNoRollbackWitness ==
    /\ pc = "exited"
    /\ pos = 6
    /\ IsFailure(log[Len(log)])
    /\ ~start.envFile.exists
    /\ envFile = start.envExample
    /\ \E i \in Idx : IsFsDone(log[i], "delete")
    /\ Times(StorageLink) = 1


\* the file assigns APP_KEY a non-empty value (an assignment, as dotenv
\* reads the file; a commented-out line assigns nothing)
KeyPresent(ls) ==
    LET v == DotenvParse(ls, "APP_KEY") IN v.set /\ v.val # ""

\* step 3 has made every runCommand call it is going to make
Step3Decided ==
    \/ pos > 3
    \/ pos = 3 /\ pc \in {"checked", "exited"}
    \/ pos = 3 /\ pc = "run" /\ cmds = <<>>

\* C15 (as claimed) -- key:generate is invoked at most once, and exactly
\* when .env did not exist or does not hold APP_KEY with a non-empty value;
\* with such a key present step 3 invokes no command.
KeyGenerationRule ==
    Step3Decided =>
        /\ Times(KeyGenerate) <= 1
        /\ Times(KeyGenerate) = 1 <=>
              (~start.envFile.exists \/ ~KeyPresent(start.envFile.lines))
        /\ (start.envFile.exists /\ KeyPresent(start.envFile.lines)) =>
              \A i \in Idx : IsSpawn(log[i]) => log[i].pos # 3


\* the command sequences C16 states, option by option
ClaimedMigration(opt) ==
    CASE opt = "migrate"       -> << "php artisan migrate" >>
      [] opt = "migrate:fresh" -> << "php artisan migrate:fresh" >>
      [] opt = "seed"          -> << "php artisan migrate", "php artisan db:seed" >>
      [] opt = "seed:fresh"    -> << "php artisan migrate:fresh --seed" >>
      [] opt = "none"          -> <<>>

\* C16 -- Migration choice mapping: the commands run in step 7 are, in
\* order, a prefix of the sequence claimed for the chosen option, and the
\* whole sequence once step 7 is over; a failed sub-command is the last
\* event of the run; db:seed starts only right after migrate was reported
\* to have exited zero.
MigrationMapping ==
    /\ \A i \in Idx : (log[i].kind = "answer" /\ log[i].pos = 7) =>
          LET sp  == SelectSeq(log, LAMBDA e : IsSpawn(e) /\ e.pos = 7)
              ran == [j \in 1..Len(sp) |-> sp[j].what]
              exp == ClaimedMigration(log[i].res)
          IN  /\ Len(ran) <= Len(exp)
              /\ ran = SubSeq(exp, 1, Len(ran))
              /\ pos > 7 => ran = exp
    /\ \A j \in Idx :
          /\ (IsFailure(log[j]) /\ log[j].pos = 7) => j = Len(log)
          /\ (IsSpawn(log[j]) /\ log[j].what = DbSeed) =>
                /\ IsOkExit(log[j - 1])
                /\ log[j - 1].what = Migrate

\* 'seed' was chosen; migrate and then db:seed ran, and step 7 is over
MigrationMappingWitness ==
    /\ pos = 8
    /\ \E i \in Idx : log[i].kind = "answer" /\ log[i].res = "seed"
    /\ Times(Migrate) = 1
    /\ Times(DbSeed) = 1


\* step 5 returned without throwing
Step5Completed == (pos = 5 /\ pc = "run") \/ pos > 5

\* C17 (as claimed) -- once step 5 has completed without error nothing is
\* left at public/storage, whatever was there, so storage:link in step 6 is
\* started with the path absent.
StorageCleaned ==
    /\ Step5Completed => storage = Absent
    /\ StorageLink \in { running[i] : i \in 1..Len(running) } =>
          storage = Absent


\* the run is waiting for something outside it
Blocked == ~Terminated /\ (pc = "prompt" \/ running # <<>>)

\* C18 -- Termination: if every child process exits and every prompt is
\* answered, every run ends, completed or aborted; and while the run waits
\* at a prompt or for a child, the runner has no step of its own to take
\* (no timeout, no cancellation): only the answer or the exit moves it on.
Termination ==
    /\ <>Terminated
    /\ [](Blocked => ~ENABLED RunnerStep)
    /\ [](Terminated => pc \in {"done", "exited", "crashed"} /\ ~ENABLED Next)

\* a run that waited at all three prompts and for the last child, and ended
TerminationWitness ==
    /\ pc = "done"
    /\ Len(SelectSeq(log, LAMBDA e : e.kind = "answer")) = 3
    /\ Times("php artisan filament:cache-components") = 1

====
